---- MODULE Spec2Model ----
(***************************************************************************)
(* Budget allocation and budget enforcement of                             *)
(* erpnext/accounts/doctype/budget/budget.py.                              *)
(*                                                                         *)
(* Three state machines share this module, each over its own variables:    *)
(*   SpecAlloc   - Budget.before_save -> allocate_budget on one document   *)
(*                 through successive saves, submit and revise_budget;     *)
(*   SpecStore   - Budget.validate, submit, cancel and revise_budget over   *)
(*                 the table of Budget documents;                          *)
(*   SpecEnforce - validate_expense_against_budget, stepped check by check.*)
(*                                                                         *)
(* Money is counted in hundredths (flt(x, 2)), percent in thousandths      *)
(* (flt(x, 3)); a date is the integer YYYYMMDD, which orders as dates do.  *)
(***************************************************************************)
EXTENDS Integers, Sequences, FiniteSets, TLC

\* ------------------------------------------------------------ bounds
\* Fiscal years known to the site, named 1..NumFiscalYears.
NumFiscalYears == 2
\* Calendar year in which fiscal year 1 starts (2024 is a leap year).
BaseYear == 2023
\* Budget amounts in hundredths: the multiples of 1000.00 up to MaxAmountUnits.
ScenarioAmount == 100000
MaxAmountUnits == 1
\* How many times revise_budget may be called on the document of SpecAlloc.
MaxRevisions == 1
\* Rows tabBudget may hold in SpecStore.
MaxBudgets == 2
\* Budget records one query of validate_expense_against_budget may return.
MaxRecords == 2

VARIABLES
    \* --- SpecAlloc
    doc,               \* the Budget document as last saved (or as created)
    is_new,            \* Document.is_new(): not yet inserted
    fy_start,          \* <<month, day>> on which the site's fiscal years start
    last_save,         \* what the last before_save hook did to the rows
    \* --- SpecStore and SpecValidate
    budgets,           \* tabBudget: the sequence of Budget rows, a row's name its index
    last_error,        \* the exception the last store operation raised, "" if none
    form,              \* SpecValidate: the document handed to Budget.validate
    outcome,           \* SpecValidate: what Budget.validate raised and left on it
    \* --- SpecEnforce and SpecActions
    exception_approver_role,  \* frappe.flags.exception_approver_role, "" for None
    request_companies, \* companies evaluated so far in this request
    pc,                \* where validate_expense_against_budget stands
    ev,                \* the call: the transaction, the user and what the ledger holds
    args,              \* the fields the evaluation writes into args
    idx,               \* budget_records taken from the query result so far
    budget,            \* the budget record of the current loop iteration
    resolved,          \* <<yearly_action, monthly_action>> of get_actions
    results,           \* the checks made for the current budget, in order
    queries,           \* <<axis, query>> pairs issued for the current budget
    checks             \* every check of the evaluation so far, in order

alloc_vars == <<doc, is_new, fy_start, last_save>>
store_vars == <<budgets, last_error>>
validate_vars == <<form, outcome>>
enforce_vars ==
    <<exception_approver_role, request_companies, pc, ev, args, idx, budget,
      resolved, results, queries, checks>>

vars ==
    <<doc, is_new, fy_start, last_save, budgets, last_error, form, outcome,
      exception_approver_role, request_companies, pc, ev, args, idx, budget,
      resolved, results, queries, checks>>

\* ------------------------------------------------------------ dates
Min(a, b) == IF a <= b THEN a ELSE b

MkDate(y, m, d) == y * 10000 + m * 100 + d
YearOf(date) == date \div 10000
MonthOf(date) == (date \div 100) % 100
DayOf(date) == date % 100

IsLeap(y) == (y % 4 = 0 /\ y % 100 # 0) \/ y % 400 = 0

DaysInMonth(y, m) ==
    IF m = 2 THEN (IF IsLeap(y) THEN 29 ELSE 28)
    ELSE IF m \in {4, 6, 9, 11} THEN 30 ELSE 31

\* frappe.utils.get_first_day(dt): first day of dt's month.
get_first_day(date) == MkDate(YearOf(date), MonthOf(date), 1)

\* frappe.utils.get_last_day(dt): last day of dt's month.
get_last_day(date) ==
    MkDate(YearOf(date), MonthOf(date), DaysInMonth(YearOf(date), MonthOf(date)))

\* frappe.utils.add_months(date, n): relativedelta(months=n), the day clamped
\* to the length of the target month.
add_months(date, n) ==
    LET k == YearOf(date) * 12 + (MonthOf(date) - 1) + n
        y == k \div 12
        m == (k % 12) + 1
    IN  MkDate(y, m, Min(DayOf(date), DaysInMonth(y, m)))

\* The day after / before a date (used to state contiguity and year ends).
NextDay(date) ==
    IF DayOf(date) < DaysInMonth(YearOf(date), MonthOf(date))
    THEN date + 1
    ELSE get_first_day(add_months(get_first_day(date), 1))

PrevDay(date) ==
    IF DayOf(date) > 1 THEN date - 1
    ELSE get_last_day(add_months(date, -1))

\* ------------------------------------------------------------ fiscal years
FiscalYearNames == 1 .. NumFiscalYears

\* Where the site's fiscal years may start: 1 January or 6 April.
FiscalYearStarts == {<<1, 1>>, <<4, 6>>}

\* tabFiscal Year: year k starts on fy_start of BaseYear + k - 1 and ends the
\* day before year k + 1 starts.
year_start_date(k, start) == MkDate(BaseYear + k - 1, start[1], start[2])
year_end_date(k, start) == PrevDay(year_start_date(k + 1, start))

\* ------------------------------------------------------------ rounding
\* flt(num / den, precision) on a non-negative quotient already scaled by
\* 10^precision: round to nearest, a tie to the even neighbour (frappe's
\* default, Banker's Rounding).
flt(num, den) ==
    LET q == num \div den
        r == num % den
    IN  IF 2 * r < den THEN q
        ELSE IF 2 * r > den THEN q + 1
        ELSE IF q % 2 = 0 THEN q ELSE q + 1

\* ------------------------------------------------------------ allocation
Frequencies == {"Monthly", "Quarterly", "Half-Yearly", "Yearly"}

BudgetAmounts == {k * ScenarioAmount : k \in 0 .. MaxAmountUnits}

\* Budget.get_period_end
get_period_end(start_date, frequency) ==
    IF frequency = "Monthly" THEN get_last_day(start_date)
    ELSE IF frequency = "Quarterly" THEN get_last_day(add_months(start_date, 2))
    ELSE IF frequency = "Half-Yearly" THEN get_last_day(add_months(start_date, 5))
    ELSE get_last_day(add_months(start_date, 11))

\* Budget.get_month_increment
get_month_increment(frequency) ==
    IF frequency = "Monthly" THEN 1
    ELSE IF frequency = "Quarterly" THEN 3
    ELSE IF frequency = "Half-Yearly" THEN 6
    ELSE IF frequency = "Yearly" THEN 12
    ELSE 1

\* The while loop of Budget.get_budget_periods.
RECURSIVE budget_periods_loop(_, _, _, _)
budget_periods_loop(start_date, end_date, frequency, periods) ==
    IF start_date <= end_date
    THEN LET period_start == get_first_day(start_date)
             period_end == Min(get_period_end(period_start, frequency), end_date)
         IN  budget_periods_loop(
                 add_months(period_start, get_month_increment(frequency)),
                 end_date, frequency,
                 Append(periods, <<period_start, period_end>>))
    ELSE periods

\* Budget.get_budget_periods: the list of (start_date, end_date).
get_budget_periods(budget_start_date, budget_end_date, frequency) ==
    budget_periods_loop(budget_start_date, budget_end_date, frequency, <<>>)

\* Budget.set_budget_date_range: start of from_fiscal_year, end of to_fiscal_year.
set_budget_date_range(self, start) ==
    <<year_start_date(self.from_fiscal_year, start),
      year_end_date(self.to_fiscal_year, start)>>

\* Budget.add_allocated_amount: the (amount, percent) of one row.
\* row_percent = 100 / total_periods, so budget_amount * row_percent / 100 is
\* budget_amount / total_periods; percent is kept in thousandths.
add_allocated_amount(self, total_periods) ==
    IF self.distribute_equally = 0
    THEN [amount |-> 0, percent |-> 0]
    ELSE [amount |-> flt(self.budget_amount, total_periods),
          percent |-> flt(100 * 1000, total_periods)]

\* Budget.should_regenerate_budget_distribution; old_doc is the document
\* before save, or NoDoc for a new document.
NoDoc == [name |-> 0]

changed_fields ==
    {"from_fiscal_year", "to_fiscal_year", "allocation_frequency", "distribute_equally"}

should_regenerate_budget_distribution(self, old_doc) ==
    IF self.budget_distribution = <<>> THEN TRUE
    ELSE IF old_doc # NoDoc /\ \E field \in changed_fields : old_doc[field] # self[field]
    THEN TRUE
    ELSE self.distribute_equally = 1

\* The rows lines 172-183 of Budget.allocate_budget build.
generated_distribution(self, start) ==
    LET range == set_budget_date_range(self, start)
        periods == get_budget_periods(range[1], range[2], self.allocation_frequency)
        total_periods == Len(periods)
    IN  [i \in 1 .. total_periods |->
            LET alloc == add_allocated_amount(self, total_periods)
            IN  [start_date |-> periods[i][1], end_date |-> periods[i][2],
                 amount |-> alloc.amount, percent |-> alloc.percent]]

\* Whether Budget.allocate_budget reaches line 172 and replaces the rows.
regenerates(self, old_doc) ==
    /\ self.revision_of = 0
    /\ should_regenerate_budget_distribution(self, old_doc)

\* Budget.allocate_budget: the budget_distribution it leaves on self.
allocate_budget(self, old_doc, start) ==
    IF regenerates(self, old_doc)
    THEN generated_distribution(self, start)
    ELSE self.budget_distribution

\* ------------------------------------------------------------ SpecAlloc
\* The fields of a Budget that allocate_budget reads, as the user may set them.
BudgetConfigs ==
    [budget_amount : BudgetAmounts,
     from_fiscal_year : FiscalYearNames,
     to_fiscal_year : FiscalYearNames,
     allocation_frequency : Frequencies,
     distribute_equally : {0, 1}]

\* The document with the form's values written over it.
with_config(self, cfg) ==
    [self EXCEPT !.budget_amount = cfg.budget_amount,
                 !.from_fiscal_year = cfg.from_fiscal_year,
                 !.to_fiscal_year = cfg.to_fiscal_year,
                 !.allocation_frequency = cfg.allocation_frequency,
                 !.distribute_equally = cfg.distribute_equally]

\* A manual distribution typed into the child table: the whole budget on the
\* first row (only offered while distribute_equally is off).
with_manual_amount(self, manual) ==
    IF manual /\ self.distribute_equally = 0 /\ self.budget_distribution # <<>>
    THEN [self EXCEPT !.budget_distribution[1].amount = self.budget_amount,
                      !.budget_distribution[1].percent = 100 * 1000]
    ELSE self

\* What before_save did to budget_distribution.
save_outcome(self, old_doc) ==
    IF regenerates(self, old_doc) THEN "regenerated" ELSE "kept"

\* The parts of the state a specification does not use stay as they start.
AllocIdle ==
    doc = NoDoc /\ is_new = FALSE /\ fy_start = <<1, 1>> /\ last_save = "none"
StoreIdle == budgets = <<>> /\ last_error = ""
ValidateIdle == form = NoDoc /\ outcome = NoDoc
EnforceIdle ==
    /\ exception_approver_role = "" /\ request_companies = {}
    /\ pc = "idle" /\ ev = NoDoc /\ args = NoDoc /\ idx = 0
    /\ budget = NoDoc /\ resolved = <<"", "">> /\ results = <<>> /\ queries = {}
    /\ checks = <<>>

AllocInit ==
    /\ StoreIdle /\ ValidateIdle /\ EnforceIdle
    /\ fy_start \in FiscalYearStarts
    /\ is_new = TRUE
    /\ \E cfg \in BudgetConfigs :
          doc = [name |-> 1, docstatus |-> 0, revision_of |-> 0,
                 budget_amount |-> cfg.budget_amount,
                 from_fiscal_year |-> cfg.from_fiscal_year,
                 to_fiscal_year |-> cfg.to_fiscal_year,
                 allocation_frequency |-> cfg.allocation_frequency,
                 distribute_equally |-> cfg.distribute_equally,
                 budget_distribution |-> <<>>]
    /\ last_save = "none"

\* Document.insert / Document.save of a draft: the before_save hook runs
\* allocate_budget on the edited document, which is then written.
Save(cfg, manual) ==
    /\ doc.docstatus = 0
    /\ LET old_doc == IF is_new THEN NoDoc ELSE doc
           self == with_manual_amount(with_config(doc, cfg), manual)
       IN  /\ doc' = [self EXCEPT !.budget_distribution =
                          allocate_budget(self, old_doc, fy_start)]
           /\ last_save' = save_outcome(self, old_doc)
    /\ is_new' = FALSE
    /\ UNCHANGED <<fy_start, store_vars, validate_vars, enforce_vars>>

\* Document.submit: validate and before_submit run, before_save does not.
Submit ==
    /\ doc.docstatus = 0
    /\ ~is_new
    /\ doc' = [doc EXCEPT !.docstatus = 1]
    /\ last_save' = "none"
    /\ UNCHANGED <<is_new, fy_start, store_vars, validate_vars, enforce_vars>>

\* revise_budget on the submitted document: it is cancelled, copied with
\* revision_of set and inserted; the insert's before_save runs allocate_budget
\* on the copy, a new document.
Revise ==
    /\ doc.docstatus = 1
    /\ doc.name <= MaxRevisions
    /\ LET new_budget == [doc EXCEPT !.name = doc.name + 1, !.docstatus = 0,
                                     !.revision_of = doc.name]
       IN  /\ doc' = [new_budget EXCEPT !.budget_distribution =
                          allocate_budget(new_budget, NoDoc, fy_start)]
           /\ last_save' = save_outcome(new_budget, NoDoc)
    /\ is_new' = FALSE
    /\ UNCHANGED <<fy_start, store_vars, validate_vars, enforce_vars>>

AllocNext ==
    \/ \E cfg \in BudgetConfigs, manual \in BOOLEAN : Save(cfg, manual)
    \/ Submit
    \/ Revise

SpecAlloc == AllocInit /\ [][AllocNext]_vars

\* ------------------------------------------------------------ claims on SpecAlloc
RECURSIVE SumField(_, _)
SumField(rows, f) ==
    IF rows = <<>> THEN 0 ELSE rows[1][f] + SumField(Tail(rows), f)

\* The last before_save replaced the rows and equal distribution is on.
EquallyDistributed ==
    /\ last_save = "regenerated"
    /\ doc.distribute_equally = 1
    /\ doc.budget_distribution # <<>>

\* C1: after allocate_budget regenerates the distribution with equal
\* distribution on, the amounts of the budget_distribution rows sum to
\* budget_amount exactly (the last row carrying the rounding remainder).
C1_AmountsSumToBudget ==
    EquallyDistributed =>
        SumField(doc.budget_distribution, "amount") = doc.budget_amount

\* C2: after allocate_budget regenerates the distribution with equal
\* distribution on, the percents of the budget_distribution rows sum to 100.
C2_PercentsSumTo100 ==
    EquallyDistributed =>
        SumField(doc.budget_distribution, "percent") = 100 * 1000

\* C3: for a budget start date <= end date the periods are ascending,
\* non-overlapping and contiguous, the first starts on the budget start date
\* and the last ends on the budget end date.
C3_PeriodsCoverBudgetRange ==
    LET rows == doc.budget_distribution
        range == set_budget_date_range(doc, fy_start)
    IN  (last_save = "regenerated" /\ range[1] <= range[2]) =>
            /\ rows # <<>>
            /\ rows[1].start_date = range[1]
            /\ rows[Len(rows)].end_date = range[2]
            /\ \A i \in 1 .. Len(rows) : rows[i].start_date <= rows[i].end_date
            /\ \A i \in 1 .. Len(rows) - 1 :
                  rows[i + 1].start_date = NextDay(rows[i].end_date)

\* The saved configuration differs in budget amount, fiscal-year range,
\* allocation frequency or distribution mode.
ConfigurationChanged(old, new) ==
    \/ old.budget_amount # new.budget_amount
    \/ old.from_fiscal_year # new.from_fiscal_year
    \/ old.to_fiscal_year # new.to_fiscal_year
    \/ old.allocation_frequency # new.allocation_frequency
    \/ old.distribute_equally # new.distribute_equally

Companies == {"C1", "C2"}

\* tabAccount: is_group, company, report_type of each account.
Accounts == {"A1", "A2", "G1", "B1"}

account_details(account) ==
    IF account = "A1"
    THEN [is_group |-> 0, company |-> "C1", report_type |-> "Profit and Loss"]
    ELSE IF account = "A2"
    THEN [is_group |-> 0, company |-> "C2", report_type |-> "Profit and Loss"]
    ELSE IF account = "G1"
    THEN [is_group |-> 1, company |-> "C1", report_type |-> "Profit and Loss"]
    ELSE [is_group |-> 0, company |-> "C1", report_type |-> "Balance Sheet"]

\* The site's fiscal years as the store sees them: calendar years.
CalendarStart == <<1, 1>>

\* frappe.scrub(self.budget_against): the name of the field budgeted against.
scrub(budget_against) ==
    IF budget_against = "Cost Center" THEN "cost_center"
    ELSE IF budget_against = "Project" THEN "project"
    ELSE ""

\* self.get(frappe.scrub(self.budget_against)), "" when there is none.
budget_against_value(self) ==
    IF scrub(self.budget_against) = "" THEN ""
    ELSE self[scrub(self.budget_against)]

\* existing_budget with the window test taken as containment: only rows whose
\* window covers the whole of self's window are found.
existing_budget_containing(self, table) ==
    LET from_start == year_start_date(self.from_fiscal_year, CalendarStart)
        to_end == year_end_date(self.to_fiscal_year, CalendarStart)
    IN  {n \in DOMAIN table :
            /\ table[n].docstatus < 2
            /\ table[n].company = self.company
            /\ table[n][scrub(self.budget_against)] = budget_against_value(self)
            /\ table[n].account = self.account
            /\ n # self.name
            /\ year_start_date(table[n].from_fiscal_year, CalendarStart) <= from_start
            /\ year_end_date(table[n].to_fiscal_year, CalendarStart) >= to_end}

\* The query of Budget.validate_duplicate: the names of the other uncancelled
\* rows of the same company, budget_against value and account whose fiscal
\* window starts on or before self's end and ends on or after self's start.
existing_budget(self, table) ==
    LET from_start == year_start_date(self.from_fiscal_year, CalendarStart)
        to_end == year_end_date(self.to_fiscal_year, CalendarStart)
    IN  {n \in DOMAIN table :
            /\ table[n].docstatus < 2
            /\ table[n].company = self.company
            /\ table[n][scrub(self.budget_against)] = budget_against_value(self)
            /\ table[n].account = self.account
            /\ n # self.name
            /\ year_start_date(table[n].from_fiscal_year, CalendarStart) <= to_end
            /\ year_end_date(table[n].to_fiscal_year, CalendarStart) >= from_start}

\* Budget.validate_duplicate: the exception it raises, "" when it returns.
validate_duplicate(self, table) ==
    IF self.account = "" THEN ""
    ELSE IF existing_budget(self, table) # {} THEN "DuplicateBudgetError"
    ELSE ""

\* Budget.validate_account: the exception it raises, "" when it returns.
validate_account(self) ==
    IF self.account = "" THEN "ValidationError"
    ELSE IF account_details(self.account).is_group = 1 THEN "ValidationError"
    ELSE IF account_details(self.account).company # self.company THEN "ValidationError"
    ELSE IF account_details(self.account).report_type # "Profit and Loss"
    THEN "ValidationError"
    ELSE ""

\* Budget.set_null_value
set_null_value(self) ==
    IF self.budget_against = "Cost Center"
    THEN [self EXCEPT !.project = ""]
    ELSE [self EXCEPT !.cost_center = ""]

\* validate_applicable_for without its second branch (purchase order without
\* actual expenses goes through).
validate_applicable_for_no_po_check(self) ==
    IF self.applicable_on_material_request = 1
       /\ ~(self.applicable_on_purchase_order = 1
            /\ self.applicable_on_booking_actual_expenses = 1)
    THEN [error |-> "ValidationError", self |-> self]
    ELSE IF ~(\/ self.applicable_on_material_request = 1
              \/ self.applicable_on_purchase_order = 1
              \/ self.applicable_on_booking_actual_expenses = 1)
    THEN [error |-> "", self |-> [self EXCEPT !.applicable_on_booking_actual_expenses = 1]]
    ELSE [error |-> "", self |-> self]

\* Budget.validate_applicable_for: the exception it raises ("" when it
\* returns) and the document it leaves.
validate_applicable_for(self) ==
    IF self.applicable_on_material_request = 1
       /\ ~(self.applicable_on_purchase_order = 1
            /\ self.applicable_on_booking_actual_expenses = 1)
    THEN [error |-> "ValidationError", self |-> self]
    ELSE IF self.applicable_on_purchase_order = 1
            /\ ~(self.applicable_on_booking_actual_expenses = 1)
    THEN [error |-> "ValidationError", self |-> self]
    ELSE IF ~(\/ self.applicable_on_material_request = 1
              \/ self.applicable_on_purchase_order = 1
              \/ self.applicable_on_booking_actual_expenses = 1)
    THEN [error |-> "", self |-> [self EXCEPT !.applicable_on_booking_actual_expenses = 1]]
    ELSE [error |-> "", self |-> self]

\* Budget.validate: the first exception raised ("" when none) and the
\* document as the hook leaves it.
validate(self, table) ==
    IF budget_against_value(self) = ""
    THEN [error |-> "ValidationError", self |-> self]
    ELSE IF validate_duplicate(self, table) # ""
    THEN [error |-> validate_duplicate(self, table), self |-> self]
    ELSE IF validate_account(self) # ""
    THEN [error |-> validate_account(self), self |-> self]
    ELSE validate_applicable_for(set_null_value(self))

\* ------------------------------------------------------------ SpecStore
\* The applicability flags offered to the store, one triple for each way out
\* of validate_applicable_for: forced on, rejected, accepted as given.
\* (SpecValidate runs validate over all eight triples.)
StoreFlags == {<<0, 0, 0>>, <<1, 0, 0>>, <<1, 1, 1>>}

\* The documents a user may hand to insert.
StoreForms ==
    {[company |-> company, account |-> account, budget_against |-> budget_against,
      cost_center |-> cost_center, project |-> project,
      from_fiscal_year |-> from_fiscal_year, to_fiscal_year |-> to_fiscal_year,
      applicable_on_material_request |-> flags[1],
      applicable_on_purchase_order |-> flags[2],
      applicable_on_booking_actual_expenses |-> flags[3]] :
        company \in Companies, account \in {"A1", "A2"},
        budget_against \in {"Cost Center", "Project"},
        cost_center \in {"", "CC1"}, project \in {"", "P1"},
        from_fiscal_year \in FiscalYearNames, to_fiscal_year \in FiscalYearNames,
        flags \in StoreFlags}

\* The row written for a validated document. The three applicability flags
\* are left out of the row: no operation of the store reads them again.
budget_row(self, docstatus, revision_of) ==
    [docstatus |-> docstatus, revision_of |-> revision_of,
     company |-> self.company, account |-> self.account,
     budget_against |-> self.budget_against,
     cost_center |-> self.cost_center, project |-> self.project,
     from_fiscal_year |-> self.from_fiscal_year,
     to_fiscal_year |-> self.to_fiscal_year]

\* frappe.get_doc("Budget", name): the row as a document; its flags are
\* those validate_applicable_for accepted when the row was written.
get_doc(table, name) ==
    [name |-> name,
     company |-> table[name].company, account |-> table[name].account,
     budget_against |-> table[name].budget_against,
     cost_center |-> table[name].cost_center, project |-> table[name].project,
     from_fiscal_year |-> table[name].from_fiscal_year,
     to_fiscal_year |-> table[name].to_fiscal_year,
     applicable_on_material_request |-> 0,
     applicable_on_purchase_order |-> 0,
     applicable_on_booking_actual_expenses |-> 1]

\* A form as a new document, named by the naming series.
new_doc(f, name) ==
    [name |-> name,
     company |-> f.company, account |-> f.account,
     budget_against |-> f.budget_against,
     cost_center |-> f.cost_center, project |-> f.project,
     from_fiscal_year |-> f.from_fiscal_year,
     to_fiscal_year |-> f.to_fiscal_year,
     applicable_on_material_request |-> f.applicable_on_material_request,
     applicable_on_purchase_order |-> f.applicable_on_purchase_order,
     applicable_on_booking_actual_expenses |-> f.applicable_on_booking_actual_expenses]

StoreInit ==
    /\ AllocIdle /\ ValidateIdle /\ EnforceIdle
    /\ budgets = <<>>
    /\ last_error = ""

\* Document.insert of a new Budget: validate runs, then the row is written.
InsertBudget(f) ==
    /\ Len(budgets) < MaxBudgets
    /\ LET res == validate(new_doc(f, Len(budgets) + 1), budgets)
       IN  /\ last_error' = res.error
           /\ budgets' = IF res.error = "" THEN Append(budgets, budget_row(res.self, 0, 0))
                         ELSE budgets
    /\ UNCHANGED <<alloc_vars, validate_vars, enforce_vars>>

\* Document.save of a draft whose fiscal years were edited.
SaveBudget(n, from_fiscal_year, to_fiscal_year) ==
    /\ budgets[n].docstatus = 0
    /\ LET self == [get_doc(budgets, n) EXCEPT !.from_fiscal_year = from_fiscal_year,
                                                !.to_fiscal_year = to_fiscal_year]
           res == validate(self, budgets)
       IN  /\ last_error' = res.error
           /\ budgets' = IF res.error = ""
                         THEN [budgets EXCEPT ![n] =
                                  budget_row(res.self, 0, budgets[n].revision_of)]
                         ELSE budgets
    /\ UNCHANGED <<alloc_vars, validate_vars, enforce_vars>>

\* Document.submit of a draft: validate runs, then docstatus becomes 1.
SubmitBudget(n) ==
    /\ budgets[n].docstatus = 0
    /\ LET res == validate(get_doc(budgets, n), budgets)
       IN  /\ last_error' = res.error
           /\ budgets' = IF res.error = ""
                         THEN [budgets EXCEPT ![n] =
                                  budget_row(res.self, 1, budgets[n].revision_of)]
                         ELSE budgets
    /\ UNCHANGED <<alloc_vars, validate_vars, enforce_vars>>

\* Document.cancel of a submitted Budget: no validation, docstatus becomes 2.
CancelBudget(n) ==
    /\ budgets[n].docstatus = 1
    /\ budgets' = [budgets EXCEPT ![n].docstatus = 2]
    /\ last_error' = ""
    /\ UNCHANGED <<alloc_vars, validate_vars, enforce_vars>>

\* revise_budget(budget_name): a submitted budget is cancelled and the cancel
\* committed; its copy is inserted as a draft with revision_of set.
revise_budget(budget_name) ==
    /\ Len(budgets) < MaxBudgets
    /\ LET cancelled == IF budgets[budget_name].docstatus = 1
                        THEN [budgets EXCEPT ![budget_name].docstatus = 2]
                        ELSE budgets
           new_budget == [get_doc(cancelled, budget_name) EXCEPT
                             !.name = Len(budgets) + 1]
           res == validate(new_budget, cancelled)
       IN  /\ last_error' = res.error
           /\ budgets' = IF res.error = ""
                         THEN Append(cancelled, budget_row(res.self, 0, budget_name))
                         ELSE cancelled
    /\ UNCHANGED <<alloc_vars, validate_vars, enforce_vars>>

StoreNext ==
    \/ \E f \in StoreForms : InsertBudget(f)
    \/ \E n \in DOMAIN budgets, from_fiscal_year, to_fiscal_year \in FiscalYearNames :
          SaveBudget(n, from_fiscal_year, to_fiscal_year)
    \/ \E n \in DOMAIN budgets : SubmitBudget(n)
    \/ \E n \in DOMAIN budgets : CancelBudget(n)
    \/ \E n \in DOMAIN budgets : revise_budget(n)

SpecStore == StoreInit /\ [][StoreNext]_vars

\* ------------------------------------------------------------ claims on SpecStore
\* Two rows are budgets of the same company, account and cost center / project.
SameBudgetKey(a, b) ==
    /\ a.company = b.company
    /\ a.account = b.account
    /\ a.budget_against = b.budget_against
    /\ a.cost_center = b.cost_center
    /\ a.project = b.project

\* The fiscal-year windows of two rows have a fiscal year in common.
WindowsOverlap(a, b) ==
    \E k \in FiscalYearNames :
        /\ a.from_fiscal_year <= k /\ k <= a.to_fiscal_year
        /\ b.from_fiscal_year <= k /\ k <= b.to_fiscal_year

\* C4: no two uncancelled (docstatus < 2) Budget rows of the same company,
\* account and cost center / project have overlapping fiscal-year windows,
\* after any sequence of inserts, saves, submits, cancels and revise_budget.
C4_NoOverlappingUncancelledBudgets ==
    \A a, b \in DOMAIN budgets :
        (/\ a # b
         /\ budgets[a].docstatus < 2
         /\ budgets[b].docstatus < 2
         /\ SameBudgetKey(budgets[a], budgets[b]))
        => ~WindowsOverlap(budgets[a], budgets[b])

\* A save that would have made two budgets of one key overlap was refused
\* with DuplicateBudgetError, and both budgets are still in the store.
C4_Witness ==
    /\ last_error = "DuplicateBudgetError"
    /\ \E a, b \in DOMAIN budgets :
          /\ a # b
          /\ budgets[a].docstatus < 2
          /\ budgets[b].docstatus < 2
          /\ SameBudgetKey(budgets[a], budgets[b])
          /\ budgets[a].from_fiscal_year <= budgets[a].to_fiscal_year
          /\ budgets[b].from_fiscal_year <= budgets[b].to_fiscal_year

\* ------------------------------------------------------------ SpecValidate
\* Budget.validate on one document at a time, over every value of the fields
\* it reads, against a store that is empty or holds one submitted budget.
ValidateForms ==
    [name : {2},
     company : Companies,
     account : {""} \cup Accounts,
     budget_against : {"", "Cost Center", "Project"},
     cost_center : {"", "CC1"},
     project : {"", "P1"},
     from_fiscal_year : FiscalYearNames,
     to_fiscal_year : FiscalYearNames,
     applicable_on_material_request : {0, 1},
     applicable_on_purchase_order : {0, 1},
     applicable_on_booking_actual_expenses : {0, 1}]

ValidateStores ==
    {<<>>,
     <<[docstatus |-> 1, revision_of |-> 0, company |-> "C1", account |-> "A1",
        budget_against |-> "Cost Center", cost_center |-> "CC1", project |-> "",
        from_fiscal_year |-> 1, to_fiscal_year |-> 1]>>}

ValidateInit ==
    /\ AllocIdle /\ EnforceIdle
    /\ last_error = ""
    /\ budgets \in ValidateStores
    /\ form \in ValidateForms
    /\ outcome = NoDoc

\* Budget.validate runs on the document.
Validate ==
    /\ outcome = NoDoc
    /\ outcome' = validate(form, budgets)
    /\ UNCHANGED <<alloc_vars, store_vars, enforce_vars, form>>

\* The validated document is handed to validate again (a later save or the
\* submit of the same document).
Revalidate ==
    /\ outcome # NoDoc
    /\ outcome.error = ""
    /\ form' = outcome.self
    /\ outcome' = NoDoc
    /\ UNCHANGED <<alloc_vars, store_vars, enforce_vars>>

ValidateNext == Validate \/ Revalidate

SpecValidate == ValidateInit /\ [][ValidateNext]_vars

\* The applicability flags of a document satisfy the Budget invariant.
FlagsConsistent(self) ==
    /\ self.applicable_on_material_request = 1 =>
          (self.applicable_on_purchase_order = 1
           /\ self.applicable_on_booking_actual_expenses = 1)
    /\ self.applicable_on_purchase_order = 1 =>
          self.applicable_on_booking_actual_expenses = 1
    /\ \/ self.applicable_on_material_request = 1
       \/ self.applicable_on_purchase_order = 1
       \/ self.applicable_on_booking_actual_expenses = 1

AllFlagsOff(self) ==
    /\ self.applicable_on_material_request = 0
    /\ self.applicable_on_purchase_order = 0
    /\ self.applicable_on_booking_actual_expenses = 0

\* C5: for every combination of the three applicability flags validation
\* either raises or returns with material request => purchase order and
\* actual expenses, purchase order => actual expenses, and at least one flag
\* on; actual expenses is forced on when all three were off.
C5_ApplicableFlagsConsistent ==
    (outcome # NoDoc /\ outcome.error = "") =>
        /\ FlagsConsistent(outcome.self)
        /\ AllFlagsOff(form) =>
              /\ outcome.self.applicable_on_booking_actual_expenses = 1
              /\ outcome.self.applicable_on_material_request = 0
              /\ outcome.self.applicable_on_purchase_order = 0

\* A document with all three flags off went through validation.
C5_Witness ==
    /\ outcome # NoDoc
    /\ outcome.error = ""
    /\ AllFlagsOff(form)
    /\ outcome.self.applicable_on_booking_actual_expenses = 1

\* ---------------------------------------------------------------------------
\* Enforcement: validate_expense_against_budget and what it calls
\* ---------------------------------------------------------------------------

\* The values an action field of a Budget holds; "" is the unset field.
ActionValues == {"", "Stop", "Warn", "Ignore"}
Doctypes == {"Journal Entry", "Material Request", "Purchase Order"}

\* get_actions with the Purchase Order branch reading the budget's flag only.
get_actions_ignoring_doctype(a, b) ==
    LET base == <<b.action_if_annual_budget_exceeded,
                  b.action_if_accumulated_monthly_budget_exceeded>>
    IN  IF a.doctype = "Material Request" /\ b.for_material_request = 1
        THEN <<b.action_if_annual_budget_exceeded_on_mr,
               b.action_if_accumulated_monthly_budget_exceeded_on_mr>>
        ELSE IF b.for_purchase_order = 1
        THEN <<b.action_if_annual_budget_exceeded_on_po,
               b.action_if_accumulated_monthly_budget_exceeded_on_po>>
        ELSE base

\* get_actions: <<yearly_action, monthly_action>> for the transaction a.
get_actions(a, b) ==
    LET base == <<b.action_if_annual_budget_exceeded,
                  b.action_if_accumulated_monthly_budget_exceeded>>
    IN  IF a.doctype = "Material Request" /\ b.for_material_request = 1
        THEN <<b.action_if_annual_budget_exceeded_on_mr,
               b.action_if_accumulated_monthly_budget_exceeded_on_mr>>
        ELSE IF a.doctype = "Purchase Order" /\ b.for_purchase_order = 1
        THEN <<b.action_if_annual_budget_exceeded_on_po,
               b.action_if_accumulated_monthly_budget_exceeded_on_po>>
        ELSE base

\* Company.exception_budget_approver_role; "" where the company names none.
exception_budget_approver_role(company) ==
    IF company = "C1" THEN "Budget Approver" ELSE ""

\* The role sets frappe.get_roles(frappe.session.user) may return.
UserRoles == {{}, {"Budget Approver"}}

\* The assignment of lines 289-292 made only when the company names a role.
approver_role_if_named(a, current) ==
    IF a.company # "" /\ exception_budget_approver_role(a.company) # ""
    THEN exception_budget_approver_role(a.company)
    ELSE current

\* Lines 289-292: frappe.flags.exception_approver_role after the assignment.
approver_role_for(a, current) ==
    IF a.company # "" THEN exception_budget_approver_role(a.company) ELSE current

\* Sum of amount over the ledger entries posted within from_to.
RECURSIVE SumEntries(_, _)
SumEntries(entries, from_to) ==
    IF entries = <<>> THEN 0
    ELSE (IF from_to[1] <= entries[1].posting_date
             /\ entries[1].posting_date <= from_to[2]
          THEN entries[1].amount ELSE 0)
         + SumEntries(Tail(entries), from_to)

\* get_actual_expense: the ledger total of the budget's fiscal window, cut at
\* month_end_date when args carries one (condition1).  0 is the absent key.
get_actual_expense(a, db) ==
    LET from_start == year_start_date(a.from_fiscal_year, CalendarStart)
        to_end == year_end_date(a.to_fiscal_year, CalendarStart)
        upper == IF a.month_end_date # 0 THEN Min(to_end, a.month_end_date)
                 ELSE to_end
    IN  SumEntries(db.gl_entries, <<from_start, upper>>)

\* get_requested_amount and get_ordered_amount: the open Material Request and
\* Purchase Order totals of the fiscal window, as the database holds them.
get_requested_amount(a, db) == db.requested
get_ordered_amount(a, db) == db.ordered

\* get_accumulated_monthly_budget: rows with bd.end_date >= posting_date.
RECURSIVE get_accumulated_monthly_budget(_, _)
get_accumulated_monthly_budget(rows, posting_date) ==
    IF rows = <<>> THEN 0
    ELSE (IF rows[1].end_date >= posting_date THEN rows[1].amount ELSE 0)
         + get_accumulated_monthly_budget(Tail(rows), posting_date)

\* Lines 419-427 with the difference always taken from the total.
budget_excess_of_total(actual_expense, amount, budget_amount) ==
    LET total_expense == actual_expense + amount
    IN  IF total_expense > budget_amount
        THEN [exceeded |-> TRUE, diff |-> total_expense - budget_amount,
              wording |-> IF actual_expense > budget_amount
                          THEN "already exceeded" ELSE "will be exceeded"]
        ELSE [exceeded |-> FALSE, diff |-> 0, wording |-> ""]

\* Lines 419-427: whether the ceiling is passed, by how much, in which words.
budget_excess(actual_expense, amount, budget_amount) ==
    LET total_expense == actual_expense + amount
    IN  IF total_expense > budget_amount
        THEN IF actual_expense > budget_amount
             THEN [exceeded |-> TRUE, diff |-> actual_expense - budget_amount,
                   wording |-> "already exceeded"]
             ELSE [exceeded |-> TRUE, diff |-> total_expense - budget_amount,
                   wording |-> "will be exceeded"]
        ELSE [exceeded |-> FALSE, diff |-> 0, wording |-> ""]

\* Lines 410-417: the pending amount added to the actual expense.
pending_amount(a, requested_amount, ordered_amount, amount) ==
    IF amount # 0 THEN amount
    ELSE IF a.doctype = "Material Request" /\ a.for_material_request = 1
    THEN requested_amount + ordered_amount
    ELSE IF a.doctype = "Purchase Order" /\ a.for_purchase_order = 1
    THEN ordered_amount
    ELSE 0

\* compare_expense_with_budget: the args it leaves, the queries it issues and
\* what it does: "pass" (nothing), "warn" (msgprint) or "raise" (BudgetError).
compare_expense_with_budget(a, db, role, roles, budget_amount, action_for, action, amount) ==
    LET actual_expense == get_actual_expense(a, db)
        requested_amount == IF amount = 0 THEN get_requested_amount(a, db) ELSE 0
        ordered_amount == IF amount = 0 THEN get_ordered_amount(a, db) ELSE 0
        pending == pending_amount(a, requested_amount, ordered_amount, amount)
        excess == budget_excess(actual_expense, pending, budget_amount)
        final_action == IF role # "" /\ role \in roles THEN "Warn" ELSE action
    IN  [args |-> [a EXCEPT !.actual_expense = actual_expense,
                            !.requested_amount = requested_amount,
                            !.ordered_amount = ordered_amount],
         queries |-> {<<action_for, "get_actual_expense">>}
                     \cup (IF amount = 0
                           THEN {<<action_for, "get_requested_amount">>,
                                 <<action_for, "get_ordered_amount">>}
                           ELSE {}),
         result |-> [action_for |-> action_for, action |-> action,
                     budget_amount |-> budget_amount,
                     actual_expense |-> actual_expense, amount |-> pending,
                     exceeded |-> excess.exceeded, diff |-> excess.diff,
                     wording |-> excess.wording,
                     did |-> IF ~excess.exceeded THEN "pass"
                             ELSE IF final_action = "Stop" THEN "raise"
                             ELSE "warn"]]

\* Lines 383 and 393 with a test for a set action instead of Stop or Warn.
is_checked_when_set(action) == action # ""

\* Lines 383 and 393: the axis is checked for Stop and Warn only.
is_checked(action) == action \in {"Stop", "Warn"}

\* --- SpecActions: get_actions over every setting of a budget's fields -------

ActionsBudgets ==
    [name : {1},
     for_material_request : {0, 1}, for_purchase_order : {0, 1},
     action_if_annual_budget_exceeded : ActionValues,
     action_if_accumulated_monthly_budget_exceeded : ActionValues,
     action_if_annual_budget_exceeded_on_mr : ActionValues,
     action_if_accumulated_monthly_budget_exceeded_on_mr : ActionValues,
     action_if_annual_budget_exceeded_on_po : ActionValues,
     action_if_accumulated_monthly_budget_exceeded_on_po : ActionValues]

ActionsInit ==
    /\ AllocIdle /\ StoreIdle /\ ValidateIdle
    /\ exception_approver_role = "" /\ request_companies = {}
    /\ ev = NoDoc /\ idx = 0 /\ results = <<>> /\ queries = {}
    /\ checks = <<>>
    /\ pc = "get_actions"
    /\ args \in [doctype : Doctypes]
    /\ budget \in ActionsBudgets
    /\ resolved = <<"", "">>

\* validate_budget_records, line 378.
GetActions ==
    /\ pc = "get_actions"
    /\ resolved' = get_actions(args, budget)
    /\ pc' = "returned"
    /\ UNCHANGED <<alloc_vars, store_vars, validate_vars,
                   exception_approver_role, request_companies, ev, args, idx,
                   budget, results, queries, checks>>

ActionsNext == GetActions

SpecActions == ActionsInit /\ [][ActionsNext]_vars

BaseActions(b) ==
    <<b.action_if_annual_budget_exceeded,
      b.action_if_accumulated_monthly_budget_exceeded>>
MaterialRequestActions(b) ==
    <<b.action_if_annual_budget_exceeded_on_mr,
      b.action_if_accumulated_monthly_budget_exceeded_on_mr>>
PurchaseOrderActions(b) ==
    <<b.action_if_annual_budget_exceeded_on_po,
      b.action_if_accumulated_monthly_budget_exceeded_on_po>>

\* C7: get_actions returns the Material Request pair for a Material Request
\* against a budget applicable on Material Requests, the Purchase Order pair
\* for a Purchase Order against a budget applicable on Purchase Orders, and
\* the base pair otherwise; the two actions always come from the same level.
C7_ActionsResolvedByDoctype ==
    pc = "returned" =>
        /\ (args.doctype = "Material Request" /\ budget.for_material_request = 1)
               => resolved = MaterialRequestActions(budget)
        /\ (args.doctype = "Purchase Order" /\ budget.for_purchase_order = 1)
               => resolved = PurchaseOrderActions(budget)
        /\ ~(args.doctype = "Material Request" /\ budget.for_material_request = 1)
           /\ ~(args.doctype = "Purchase Order" /\ budget.for_purchase_order = 1)
               => resolved = BaseActions(budget)
        /\ resolved \in {BaseActions(budget), MaterialRequestActions(budget),
                         PurchaseOrderActions(budget)}

\* A Material Request met a budget applicable on Purchase Orders only, whose
\* three levels differ, and got the base pair.
C7_Witness ==
    /\ pc = "returned"
    /\ args.doctype = "Material Request"
    /\ budget.for_material_request = 0 /\ budget.for_purchase_order = 1
    /\ BaseActions(budget) = <<"Stop", "Warn">>
    /\ MaterialRequestActions(budget) = <<"Warn", "Ignore">>
    /\ PurchaseOrderActions(budget) = <<"Ignore", "Stop">>
    /\ resolved = <<"Stop", "Warn">>

\* --- SpecEnforce: evaluations of validate_expense_against_budget -----------

\* The override levels of the budgets below: each action moved one and two
\* places along Stop, Warn, Ignore, unset.
next_action(action) ==
    CASE action = "Stop" -> "Warn"
      [] action = "Warn" -> "Ignore"
      [] action = "Ignore" -> ""
      [] OTHER -> "Stop"

\* The rows of a submitted budget of ScenarioAmount over the first fiscal
\* year, distributed equally over its quarters.
QuarterlyRows ==
    generated_distribution(
        [budget_amount |-> ScenarioAmount, from_fiscal_year |-> 1,
         to_fiscal_year |-> 1, allocation_frequency |-> "Quarterly",
         distribute_equally |-> 1],
        CalendarStart)

enforce_record(budget_amount, flags, yearly, monthly) ==
    [name |-> 1, budget_against |-> "CC1", budget_amount |-> budget_amount,
     from_fiscal_year |-> 1, to_fiscal_year |-> 1,
     for_material_request |-> flags[1], for_purchase_order |-> flags[2],
     action_if_annual_budget_exceeded |-> yearly,
     action_if_accumulated_monthly_budget_exceeded |-> monthly,
     action_if_annual_budget_exceeded_on_mr |-> next_action(yearly),
     action_if_accumulated_monthly_budget_exceeded_on_mr |-> next_action(monthly),
     action_if_annual_budget_exceeded_on_po |-> next_action(next_action(yearly)),
     action_if_accumulated_monthly_budget_exceeded_on_po |->
         next_action(next_action(monthly)),
     budget_distribution |-> IF budget_amount = 0 THEN <<>> ELSE QuarterlyRows]

\* The rows the budget_records query (lines 336-369) may return: a budget of
\* amount zero, whose other fields are never read, and budgets of
\* ScenarioAmount with every pair of base actions.
EnforceRecords ==
    {enforce_record(0, <<0, 0>>, "", "")}
    \cup {enforce_record(ScenarioAmount, flags, yearly, monthly) :
            flags \in {<<0, 0>>, <<0, 1>>, <<1, 1>>},
            yearly \in ActionValues, monthly \in ActionValues}

\* What tabGL Entry holds for the account and dimension: an entry before the
\* budget's window, one early in it and one late in it.
Ledgers ==
    {<<[posting_date |-> MkDate(BaseYear - 1, 12, 31), amount |-> ScenarioAmount],
       [posting_date |-> MkDate(BaseYear, 1, 10), amount |-> early],
       [posting_date |-> MkDate(BaseYear, 12, 20), amount |-> late]>> :
        early \in {(9 * ScenarioAmount) \div 10, (12 * ScenarioAmount) \div 10},
        late \in {0, (3 * ScenarioAmount) \div 10}}

PostingDates == {MkDate(BaseYear, 2, 15), MkDate(BaseYear, 8, 15)}
ExpenseAmounts == {0, (15 * ScenarioAmount) \div 100}

\* The calls: the transaction, the session user's roles and the database.
EnforceCalls ==
    [company : {""} \cup Companies, doctype : Doctypes, account : {"", "A1"},
     posting_date : PostingDates, budget_exists : BOOLEAN,
     expense_amount : ExpenseAmounts, roles : UserRoles, gl_entries : Ledgers]

EnforceInit ==
    /\ AllocIdle /\ StoreIdle /\ ValidateIdle /\ EnforceIdle

\* validate_expense_against_budget, lines 264-301, up to the dimension loop.
StartEvaluation(call) ==
    /\ pc = "idle"
    /\ call.budget_exists => call.company # ""
    /\ IF ~call.budget_exists
       THEN UNCHANGED enforce_vars
       ELSE /\ exception_approver_role' =
                   approver_role_for(call, exception_approver_role)
            /\ request_companies' = request_companies \cup {call.company}
            /\ IF call.account = ""
               THEN UNCHANGED <<pc, ev, args, idx, budget, resolved, results,
                                queries, checks>>
               ELSE /\ pc' = "fetch"
                    /\ ev' = [expense_amount |-> call.expense_amount,
                              roles |-> call.roles,
                              gl_entries |-> call.gl_entries,
                              requested |-> ScenarioAmount \div 10,
                              ordered |-> ScenarioAmount \div 20]
                    /\ args' = [company |-> call.company,
                                doctype |-> call.doctype,
                                posting_date |-> call.posting_date,
                                for_material_request |-> 0,
                                for_purchase_order |-> 0,
                                from_fiscal_year |-> 0, to_fiscal_year |-> 0,
                                month_end_date |-> 0, actual_expense |-> 0,
                                requested_amount |-> 0, ordered_amount |-> 0]
                    /\ idx' = 0 /\ budget' = NoDoc /\ resolved' = <<"", "">>
                    /\ results' = <<>> /\ queries' = {} /\ checks' = <<>>
    /\ UNCHANGED <<alloc_vars, store_vars, validate_vars>>

\* What the evaluation keeps of a check: the budget's place in the query
\* result, the axis, the resolved action and what the check did.
check_entry(place, result) ==
    [budget |-> place, action_for |-> result.action_for,
     action |-> result.action, did |-> result.did]

\* Lines 446-449 with msgprint ending the evaluation as frappe.throw does.
after_check_abort_on_message(did, next) ==
    IF did # "pass" THEN "raised" ELSE next

\* Lines 446-449: frappe.throw leaves validate_expense_against_budget with
\* BudgetError; after msgprint, or without a message, the loop goes on.
after_check(did, next) ==
    IF did = "raise" THEN "raised" ELSE next

\* validate_budget_records, lines 376-381: the loop takes the next budget
\* record; one of amount zero is passed over.
FetchBudget(b) ==
    /\ pc = "fetch" /\ idx < MaxRecords
    /\ idx' = idx + 1
    /\ results' = <<>> /\ queries' = {}
    /\ IF flt(b.budget_amount, 1) = 0
       THEN /\ budget' = NoDoc
            /\ UNCHANGED <<pc, args, resolved>>
       ELSE /\ budget' = [b EXCEPT !.name = idx + 1]
            /\ resolved' = get_actions(args, b)
            /\ args' = [args EXCEPT
                           !.for_material_request = b.for_material_request,
                           !.for_purchase_order = b.for_purchase_order,
                           !.from_fiscal_year = b.from_fiscal_year,
                           !.to_fiscal_year = b.to_fiscal_year]
            /\ pc' = "annual"
    /\ UNCHANGED <<alloc_vars, store_vars, validate_vars,
                   exception_approver_role, request_companies, ev, checks>>

\* validate_budget_records, lines 383-391: the annual check of the budget.
AnnualCheck ==
    /\ pc = "annual"
    /\ IF is_checked(resolved[1])
       THEN LET c == compare_expense_with_budget(
                         args, ev, exception_approver_role, ev.roles,
                         flt(budget.budget_amount, 1), "Annual", resolved[1],
                         ev.expense_amount)
            IN  /\ args' = c.args
                /\ queries' = queries \cup c.queries
                /\ results' = Append(results, c.result)
                /\ checks' = Append(checks, check_entry(idx, c.result))
                /\ pc' = after_check(c.result.did, "monthly")
       ELSE /\ pc' = "monthly"
            /\ UNCHANGED <<args, queries, results, checks>>
    /\ UNCHANGED <<alloc_vars, store_vars, validate_vars,
                   exception_approver_role, request_companies, ev, idx, budget,
                   resolved>>

\* validate_budget_records, lines 393-405: the accumulated monthly check.
MonthlyCheck ==
    /\ pc = "monthly"
    /\ IF is_checked(resolved[2])
       THEN LET budget_amount == get_accumulated_monthly_budget(
                                     budget.budget_distribution,
                                     args.posting_date)
                dated == [args EXCEPT
                             !.month_end_date = get_last_day(args.posting_date)]
                c == compare_expense_with_budget(
                         dated, ev, exception_approver_role, ev.roles,
                         budget_amount, "Accumulated Monthly", resolved[2],
                         ev.expense_amount)
            IN  /\ args' = c.args
                /\ queries' = queries
                       \cup {<<"Accumulated Monthly",
                               "get_accumulated_monthly_budget">>}
                       \cup c.queries
                /\ results' = Append(results, c.result)
                /\ checks' = Append(checks, check_entry(idx, c.result))
                /\ pc' = after_check(c.result.did, "fetch")
       ELSE /\ pc' = "fetch"
            /\ UNCHANGED <<args, queries, results, checks>>
    /\ UNCHANGED <<alloc_vars, store_vars, validate_vars,
                   exception_approver_role, request_companies, ev, idx, budget,
                   resolved>>

\* validate_expense_against_budget returns: the loops are through.
Return ==
    /\ pc = "fetch"
    /\ pc' = "idle" /\ ev' = NoDoc /\ args' = NoDoc /\ idx' = 0
    /\ budget' = NoDoc /\ resolved' = <<"", "">>
    /\ results' = <<>> /\ queries' = {} /\ checks' = <<>>
    /\ UNCHANGED <<alloc_vars, store_vars, validate_vars,
                   exception_approver_role, request_companies>>

\* The request ends, after a return or on the BudgetError; the next request
\* starts with frappe.flags cleared.
EndRequest ==
    /\ pc \in {"idle", "raised"}
    /\ request_companies # {}
    /\ exception_approver_role' = "" /\ request_companies' = {}
    /\ pc' = "idle" /\ ev' = NoDoc /\ args' = NoDoc /\ idx' = 0
    /\ budget' = NoDoc /\ resolved' = <<"", "">>
    /\ results' = <<>> /\ queries' = {} /\ checks' = <<>>
    /\ UNCHANGED <<alloc_vars, store_vars, validate_vars>>

EnforceNext ==
    \/ \E call \in EnforceCalls : StartEvaluation(call)
    \/ \E b \in EnforceRecords : FetchBudget(b)
    \/ AnnualCheck
    \/ MonthlyCheck
    \/ Return
    \/ EndRequest

SpecEnforce == EnforceInit /\ [][EnforceNext]_vars

ResultsOf(seq) == {seq[i] : i \in 1 .. Len(seq)}

\* The pending amount of the check: the expense handed in, or else what the
\* open Material Requests and Purchase Orders add for the document type.
PendingAmount ==
    IF ev.expense_amount # 0 THEN ev.expense_amount
    ELSE IF args.doctype = "Material Request" /\ budget.for_material_request = 1
    THEN ev.requested + ev.ordered
    ELSE IF args.doctype = "Purchase Order" /\ budget.for_purchase_order = 1
    THEN ev.ordered
    ELSE 0

\* C8: compare_expense_with_budget produces a message exactly when
\* actual_expense + pending amount > budget amount; the diff is
\* actual_expense - budget_amount, worded "already exceeded", when the actual
\* expense alone passes the budget, and total_expense - budget_amount, worded
\* "will be exceeded", otherwise.
C8_MessageExactlyWhenExceeded ==
    \A r \in ResultsOf(results) :
        LET total_expense == r.actual_expense + PendingAmount
        IN  /\ (r.did # "pass") <=> (total_expense > r.budget_amount)
            /\ r.did # "pass" =>
                   IF r.actual_expense > r.budget_amount
                   THEN /\ r.diff = r.actual_expense - r.budget_amount
                        /\ r.wording = "already exceeded"
                   ELSE /\ r.diff = total_expense - r.budget_amount
                        /\ r.wording = "will be exceeded"

\* Actual expense 900.00 against an annual budget of 1000.00 with 150.00
\* pending: rejected, "will be exceeded" by 50.00.
C8_Witness ==
    /\ pc = "raised"
    /\ \E r \in ResultsOf(results) :
           /\ r.action_for = "Annual"
           /\ r.actual_expense = (9 * ScenarioAmount) \div 10
           /\ r.budget_amount = ScenarioAmount
           /\ PendingAmount = (15 * ScenarioAmount) \div 100
           /\ r.diff = (5 * ScenarioAmount) \div 100
           /\ r.wording = "will be exceeded"
           /\ r.did = "raise"

\* C9: an exceeded check with action Stop ends in a warning, and no
\* BudgetError, when the company of the transaction names an approver role
\* the user holds, and raises BudgetError otherwise; the role consulted is
\* that of the company being evaluated, whatever companies were evaluated
\* before it.
C9_ApproverRoleOfCurrentCompany ==
    pc \in {"fetch", "annual", "monthly", "raised"} =>
        LET role == exception_budget_approver_role(args.company)
        IN  /\ exception_approver_role = role
            /\ \A r \in ResultsOf(results) :
                   (r.exceeded /\ r.action = "Stop") =>
                       IF role # "" /\ role \in ev.roles
                       THEN r.did = "warn" /\ pc # "raised"
                       ELSE r.did = "raise" /\ pc = "raised"

\* A user holding the approver role of company C1 is stopped on a
\* transaction of company C2, which names no role, after an evaluation for
\* C1 in the same request.
C9_Witness ==
    /\ pc = "raised"
    /\ request_companies = {"C1", "C2"}
    /\ args.company = "C2"
    /\ "Budget Approver" \in ev.roles
    /\ \E r \in ResultsOf(results) : r.action = "Stop" /\ r.did = "raise"

\* C10: for a budget whose resolved annual and accumulated monthly actions
\* are each Ignore or empty, validate_budget_records produces no message and
\* issues no aggregation query; an axis whose action is Ignore or empty is
\* skipped even when the other axis is checked.
C10_IgnoredAxisSkipped ==
    budget # NoDoc =>
        /\ (pc \in {"monthly", "fetch", "raised"} /\ resolved[1] \in {"Ignore", ""})
               => /\ \A q \in queries : q[1] # "Annual"
                  /\ \A r \in ResultsOf(results) : r.action_for # "Annual"
        /\ (pc \in {"fetch", "raised"} /\ resolved[2] \in {"Ignore", ""})
               => /\ \A q \in queries : q[1] # "Accumulated Monthly"
                  /\ \A r \in ResultsOf(results) :
                         r.action_for # "Accumulated Monthly"
        /\ (pc = "fetch" /\ resolved[1] \in {"Ignore", ""}
                         /\ resolved[2] \in {"Ignore", ""})
               => queries = {} /\ results = <<>>

\* A budget with annual action Ignore and no monthly action went through
\* both axes, with the ledger already above the budget, without a query or a
\* message.
C10_Witness ==
    /\ pc = "fetch" /\ budget # NoDoc
    /\ resolved = <<"Ignore", "">>
    /\ SumEntries(ev.gl_entries, <<MkDate(BaseYear, 1, 1), MkDate(BaseYear, 12, 31)>>)
           > budget.budget_amount
    /\ queries = {} /\ results = <<>>

\* The place of a check in the order of validate_budget_records: budgets in
\* query order, annual before accumulated monthly.
CheckRank(e) == 2 * e.budget + (IF e.action_for = "Annual" THEN 0 ELSE 1)

\* The user holds the approver role of the transaction's company.
ApproverHolds ==
    /\ exception_budget_approver_role(args.company) # ""
    /\ exception_budget_approver_role(args.company) \in ev.roles

\* What C11 says whatever the approver role: checks run in order, none is
\* left out while the evaluation goes on, a message that is not an error
\* never ends the evaluation, an error is the last check and comes from a
\* Stop action only, and an exceeded Warn check has emitted its warning.
ChecksInOrderUntilError ==
    /\ \A i \in 1 .. Len(checks) - 1 :
           /\ CheckRank(checks[i]) < CheckRank(checks[i + 1])
           /\ checks[i].did # "raise"
    /\ \A i \in 1 .. Len(checks) :
           /\ checks[i].did = "raise" => checks[i].action = "Stop"
           /\ checks[i].action = "Warn" => checks[i].did \in {"pass", "warn"}
    /\ pc = "raised" <=>
           (checks # <<>> /\ checks[Len(checks)].did = "raise")
    /\ (pc \in {"monthly", "fetch"} /\ budget # NoDoc
            /\ resolved[1] \in {"Stop", "Warn"})
           => \E i \in 1 .. Len(checks) :
                  checks[i].budget = idx /\ checks[i].action_for = "Annual"
    /\ (pc = "fetch" /\ budget # NoDoc /\ resolved[2] \in {"Stop", "Warn"})
           => \E i \in 1 .. Len(checks) :
                  /\ checks[i].budget = idx
                  /\ checks[i].action_for = "Accumulated Monthly"

\* C11 as stated: a Warn outcome never aborts, the next axis and the next
\* budget are still checked; the first exceeded check whose resolved action
\* is Stop raises BudgetError and no later check runs; the warnings of the
\* exceeded checks before it have been emitted; BudgetError is raised only
\* when the resolved action is Stop.
C11_FirstStopRaises ==
    /\ ChecksInOrderUntilError
    /\ \A i \in 1 .. Len(checks) :
           (checks[i].did # "pass" /\ checks[i].action = "Stop")
               => checks[i].did = "raise"

\* C11, amended: as above, but an exceeded check whose resolved action is
\* Stop raises BudgetError only when the user does not hold the approver
\* role of the transaction's company; when the user holds it the check
\* emits a warning and the later checks run.
C11_FirstStopRaisesUnlessApprover ==
    /\ ChecksInOrderUntilError
    /\ \A i \in 1 .. Len(checks) :
           (checks[i].did # "pass" /\ checks[i].action = "Stop")
               => checks[i].did = (IF ApproverHolds THEN "warn" ELSE "raise")

\* Three warnings, annual and monthly of the first budget and annual of the
\* second, were emitted before the monthly check of the second budget raised.
C11_Witness ==
    /\ pc = "raised" /\ Len(checks) = 4
    /\ \A i \in 1 .. 3 : checks[i].did = "warn" /\ checks[i].action = "Warn"
    /\ checks[4] = [budget |-> 2, action_for |-> "Accumulated Monthly",
                    action |-> "Stop", did |-> "raise"]

\* ---------------------------------------------------------------------------
\* Further claims on SpecAlloc
\* ---------------------------------------------------------------------------

\* C12: when budget_amount is zero or the date range yields zero periods,
\* allocate_budget leaves budget_distribution empty (no rows appended).
C12_EmptyWhenNothingToAllocate ==
    LET range == set_budget_date_range(doc, fy_start)
        periods == get_budget_periods(range[1], range[2],
                                      doc.allocation_frequency)
    IN  (last_save = "regenerated"
            /\ (doc.budget_amount = 0 \/ periods = <<>>))
            => doc.budget_distribution = <<>>

\* ---------------------------------------------------------------------------
\* Further claims on SpecEnforce
\* ---------------------------------------------------------------------------

\* The allocation from the first period up to and including the period that
\* contains posting_date.
RECURSIVE CumulativeAllocation(_, _)
CumulativeAllocation(rows, posting_date) ==
    IF rows = <<>> THEN 0
    ELSE (IF rows[1].start_date <= posting_date THEN rows[1].amount ELSE 0)
         + CumulativeAllocation(Tail(rows), posting_date)

\* C13: the ceiling of the accumulated monthly check, the sum of the rows
\* whose end_date >= posting_date, equals the cumulative allocation from the
\* budget's first period up to and including the period of the posting date.
C13_CeilingIsCumulativeAllocation ==
    \A r \in ResultsOf(results) :
        r.action_for = "Accumulated Monthly" =>
            r.budget_amount =
                CumulativeAllocation(budget.budget_distribution,
                                     args.posting_date)

\* The ledger total over the whole fiscal window of budget b.
WholeWindowExpense(b) ==
    SumEntries(ev.gl_entries,
               <<year_start_date(b.from_fiscal_year, CalendarStart),
                 year_end_date(b.to_fiscal_year, CalendarStart)>>)

\* C14: checks are independent of each other: the actual expense used by
\* every annual check covers the budget's whole fiscal window, whether or
\* not an accumulated monthly check of an earlier budget ran before it, and
\* is never bounded by the month-end date a monthly check left in args.
C14_AnnualCheckOverWholeWindow ==
    \A r \in ResultsOf(results) :
        r.action_for = "Annual" =>
            /\ r.actual_expense = WholeWindowExpense(budget)
            /\ (r.did # "pass") <=>
                   (WholeWindowExpense(budget) + PendingAmount > r.budget_amount)

====
